---- MODULE Spec2Model ----
(***************************************************************************)
(* The POST /mcp adapter of src/src/http-server.ts: request normalisation, *)
(* method and tool dispatch, the outer per-request timer, the list_boards  *)
(* per-tool timer, and the response envelopes; with it the GET /tools      *)
(* listing and the GET /sse keepalive stream.  The Trello client           *)
(* (./trello-client.js) is the upstream: each call is a promise that       *)
(* resolves with a value, rejects, or never settles.                       *)
(*                                                                         *)
(* Node runs the handler on one thread: a step of the model is one run of  *)
(* JavaScript between two suspension points (the arrival of a request up   *)
(* to its first await, the settling of an awaited promise up to the next   *)
(* await or the end of the handler, one timer callback).                   *)
(***************************************************************************)
EXTENDS Integers, Sequences, FiniteSets, TLC

(***************************************************************************)
(* Bounds of the model.                                                    *)
(***************************************************************************)
\* How many requests arrive in one behaviour.
MaxRequests == 2
\* How many times the keepalive interval of one /sse connection ticks.
MaxPings == 2

(***************************************************************************)
(* JavaScript values.  Every value is a tagged record, so that a property  *)
(* may hold undefined, null, a number, a string or an object.              *)
(***************************************************************************)
Undef == [t |-> "undefined"]
Null == [t |-> "null"]
Num(n) == [t |-> "number", n |-> n]
Str(s) == [t |-> "string", s |-> s]
Bool(b) == [t |-> "boolean", b |-> b]
Obj(o) == [t |-> "object", o |-> o]
Arr(a) == [t |-> "array", a |-> a]
\* An Error instance carrying a message.
JsError(m) == [t |-> "error", message |-> m]
\* {} : the object with no key.
EmptyObj == Obj(<<>>)

\* obj.key : undefined when obj has no such key.
Get(v, key) ==
  IF v.t = "object" /\ key \in DOMAIN v.o THEN v.o[key] ELSE Undef

\* JavaScript truthiness, as used by !method, id || null, req.body.jsonrpc ? :
Falsy(v) ==
  \/ v.t \in {"undefined", "null"}
  \/ v.t = "number" /\ v.n = 0
  \/ v.t = "string" /\ v.s = ""
  \/ v.t = "boolean" /\ ~v.b
Truthy(v) == ~Falsy(v)

\* a || b
OrElse(a, b) == IF Truthy(a) THEN a ELSE b

\* `${v}` : the text a template literal gives a value.
TemplateStr(v) ==
  CASE v.t = "string" -> v.s
    [] v.t = "undefined" -> "undefined"
    [] v.t = "null" -> "null"
    [] v.t = "number" -> (IF v.n = 0 THEN "0" ELSE IF v.n = 1 THEN "1" ELSE "NaN")
    [] v.t = "boolean" -> (IF v.b THEN "true" ELSE "false")
    [] OTHER -> "[object Object]"

\* JSON.stringify drops the keys of an object whose value is undefined and
\* writes an undefined array element as null.  JsonOf(v) is the value a peer
\* parses from JSON.stringify(v).
RECURSIVE JsonOf(_)
JsonOf(v) ==
  CASE v.t = "object" ->
         Obj([k \in {kk \in DOMAIN v.o : v.o[kk] # Undef} |-> JsonOf(v.o[k])])
    [] v.t = "array" ->
         Arr([i \in DOMAIN v.a |-> IF v.a[i] = Undef THEN Null ELSE JsonOf(v.a[i])])
    [] OTHER -> v

\* JSON.stringify(v) as a value: a string whose text is the JSON of v
\* (undefined when v is undefined).
JsonStringify(v) ==
  IF v = Undef THEN Undef ELSE [t |-> "string", json |-> JsonOf(v)]

\* s.toLowerCase(), over the letters the inputs use.
LowerChar(c) ==
  CASE c = "S" -> "s" [] c = "A" -> "a" [] c = "V" -> "v" [] c = "C" -> "c"
    [] c = "P" -> "p" [] c = "X" -> "x" [] OTHER -> c
RECURSIVE ToLowerCase(_)
ToLowerCase(s) ==
  IF Len(s) = 0 THEN "" ELSE LowerChar(Head(s)) \o ToLowerCase(Tail(s))

\* hay.includes(needle)
Includes(hay, needle) ==
  \E i \in 1..(Len(hay) - Len(needle) + 1) :
    SubSeq(hay, i, i + Len(needle) - 1) = needle

(***************************************************************************)
(* Program constants.                                                      *)
(***************************************************************************)
\* The delay of the outer per-request timer, in milliseconds.
OuterTimeoutMs == 3000
\* The delay of the list_boards per-tool timer, in milliseconds.
ToolTimeoutMs == 2000
\* The JSON-RPC error code of every error envelope.
InternalErrorCode == -32603
\* list_boards keeps this many open boards.
MaxBoards == 5

(***************************************************************************)
(* The upstream: the Trello client.  A call is the operation's name and    *)
(* the arguments the adapter passes.                                       *)
(***************************************************************************)
Call(op, args) == [op |-> op, args |-> args]

BoardSav ==
  Obj([id |-> Str("B1"), name |-> Str("SAV Client"), desc |-> Str(""),
       url |-> Str("https://trello.com/b/B1"), shortUrl |-> Str("https://trello.com/b/s1"),
       closed |-> Bool(FALSE), idOrganization |-> Str("W1")])
BoardProjet ==
  Obj([id |-> Str("B2"), name |-> Str("Projet X"), desc |-> Str("suivi sav"),
       url |-> Str("https://trello.com/b/B2"), shortUrl |-> Str("https://trello.com/b/s2"),
       closed |-> Bool(TRUE), idOrganization |-> Null])
ListTodo ==
  Obj([id |-> Str("L1"), name |-> Str("To Do"), closed |-> Bool(FALSE),
       idBoard |-> Str("B1")])
CardFix ==
  Obj([id |-> Str("C1"), name |-> Str("Fix bug"), idList |-> Str("L1")])

\* A listing of eight boards, the second and the seventh closed.
BoardIds == <<"N1", "N2", "N3", "N4", "N5", "N6", "N7", "N8">>
BoardNumbered(i) ==
  Obj([id |-> Str(BoardIds[i]), name |-> Str("kanban"), desc |-> Str(""),
       url |-> Str("https://trello.com/b/" \o BoardIds[i]),
       shortUrl |-> Str("https://trello.com/b/s" \o BoardIds[i]),
       closed |-> Bool(i \in {2, 7}), idOrganization |-> Null])
ManyBoards == Arr([i \in DOMAIN BoardIds |-> BoardNumbered(i)])

\* The values an upstream operation may resolve with.
UpstreamValues(op) ==
  CASE op = "listBoards" -> {Arr(<<>>), Arr(<<BoardSav, BoardProjet>>), ManyBoards}
    [] op \in {"getBoardById", "setActiveBoard", "createBoard"} -> {BoardSav}
    [] op = "getLists" -> {Arr(<<>>), Arr(<<ListTodo>>)}
    [] op = "addCard" -> {CardFix}
    [] OTHER -> {Null, Arr(<<CardFix>>)}

\* The reasons an upstream operation may reject with: an Error, or a value
\* that is no Error.
UpstreamErrors ==
  {JsError("Request failed with status code 404"), Str("socket hang up")}

\* What a successful upstream call does to the session context: the active
\* board and the active workspace are set by setActiveBoard and
\* setActiveWorkspace, and by no other operation.
SessionAfter(call, board, workspace) ==
  CASE call.op = "setActiveBoard" -> <<call.args[1], workspace>>
    [] call.op = "setActiveWorkspace" -> <<board, call.args[1]>>
    [] OTHER -> <<board, workspace>>

(***************************************************************************)
(* Request bodies, as express.json() hands them to the handler: an object  *)
(* whose absent keys read as undefined.                                    *)
(***************************************************************************)
JsonrpcInputs == {Undef, Str("2.0")}
IdInputs == {Undef, Null, Num(0), Num(1), Str(""), Str("a")}

ToolCall(name, arguments) == Obj([name |-> name, arguments |-> arguments])

ToolCallParams ==
  { ToolCall(Str("search"), Obj([query |-> Str("SAV")])),
    ToolCall(Str("search"), Obj([query |-> Str("Proj")])),
    ToolCall(Str("search"), Obj([query |-> Str("zz")])),
    ToolCall(Str("search"), Undef),
    ToolCall(Str("fetch"), Obj([id |-> Str("B1")])),
    ToolCall(Str("list_boards"), Undef),
    ToolCall(Str("get_cards_by_list_id"), Obj([listId |-> Str("L1")])),
    ToolCall(Str("get_lists"), Obj([boardId |-> Str("B1")])),
    ToolCall(Str("get_lists"), EmptyObj),
    ToolCall(Str("create_card"), Obj([listId |-> Str("L1"), name |-> Str("Fix bug")])),
    ToolCall(Str("set_active_board"), Obj([boardId |-> Str("B1")])),
    ToolCall(Str("nope"), Undef),
    ToolCall(Undef, Undef) }

\* The (method, params) pairs the model sends.
MethodInputs ==
  {<<Undef, Undef>>, <<Str(""), Undef>>, <<Str(""), ToolCall(Str("search"), Undef)>>,
   <<Str("initialize"), Undef>>, <<Str("tools/list"), Undef>>,
   <<Str("notifications/initialized"), Undef>>,
   <<Str("bogus"), Undef>>, <<Str("resources/list"), EmptyObj>>, <<Str("search"), Obj([query |-> Str("SAV")])>>,
   <<Str("get_lists"), Obj([boardId |-> Str("B1")])>>, <<Str("get_lists"), Undef>>,
   <<Str("get_cards_by_list_id"), Obj([listId |-> Str("L1")])>>,
   <<Str("list_boards"), Undef>>,
   <<Str("set_active_board"), Obj([boardId |-> Str("B1")])>>,
   <<Str("set_active_board"), Obj([boardId |-> Str("B2")])>>,
   <<Str("set_active_workspace"), Obj([workspaceId |-> Str("W1")])>>,
   <<Str("get_active_board_info"), Undef>>,
   <<Str("create_board"), Obj([name |-> Str("Projet X")])>>}
  \cup {<<Str("tools/call"), p>> : p \in ToolCallParams}

BodyInputs ==
  {[jsonrpc |-> j, id |-> i, method |-> mp[1], params |-> mp[2]] :
     j \in JsonrpcInputs, i \in IdInputs, mp \in MethodInputs}

\* The slot of a request that has not arrived.
NoBody == [jsonrpc |-> Undef, id |-> Undef, method |-> Undef, params |-> Undef]
NoCall == Call("", <<>>)

(***************************************************************************)
(* The tool catalog returned by tools/list, and the names GET /tools       *)
(* returns.  A descriptor keeps its name, the keys of its properties and   *)
(* its required keys.                                                      *)
(***************************************************************************)
Descriptor(name, properties, required) ==
  Obj([annotations |-> Null,
       name |-> Str(name),
       inputSchema |->
         Obj([type |-> Str("object"),
              properties |-> Obj([k \in properties |-> Obj([type |-> Str("string")])]),
              required |-> Arr([i \in DOMAIN required |-> Str(required[i])]),
              additionalProperties |-> Bool(FALSE)])])

\* (ToolCatalogRequiresBoardId: create_card requiring the boardId its handler
\* reads but its schema does not declare, the mutant C20 is checked against.)
ToolCatalogRequiresBoardId ==
  Arr(<<Descriptor("search", {"query"}, <<"query">>),
        Descriptor("fetch", {"id"}, <<"id">>),
        Descriptor("list_boards", {}, <<>>),
        Descriptor("get_cards_by_list_id", {"listId"}, <<"listId">>),
        Descriptor("get_lists", {"boardId"}, <<"boardId">>),
        Descriptor("create_card", {"listId", "name", "desc"},
                   <<"boardId", "listId", "name">>)>>)
ToolCatalog ==
  Arr(<<Descriptor("search", {"query"}, <<"query">>),
        Descriptor("fetch", {"id"}, <<"id">>),
        Descriptor("list_boards", {}, <<>>),
        Descriptor("get_cards_by_list_id", {"listId"}, <<"listId">>),
        Descriptor("get_lists", {"boardId"}, <<"boardId">>),
        Descriptor("create_card", {"listId", "name", "desc"}, <<"listId", "name">>)>>)

InitializeResult ==
  Obj([protocolVersion |-> Str("2024-11-05"),
       capabilities |-> Obj([tools |-> EmptyObj]),
       serverInfo |-> Obj([name |-> Str("mcp-server-trello"), version |-> Str("1.3.1")])])

(***************************************************************************)
(* What one run of the handler ends with: an early `return res.status()    *)
(* .json()`, a result for the envelope, a throw into the catch block, or   *)
(* an await of an upstream call (cont names the code after the await).     *)
(***************************************************************************)
Return(status, obj) == [kind |-> "return", status |-> status, obj |-> obj]
Result(v) == [kind |-> "result", value |-> v]
Throw(e) == [kind |-> "throw", error |-> e]
Await(call, cont) == [kind |-> "await", call |-> call, cont |-> cont]

\* The legacy cases of the outer switch that are one awaited upstream call
\* whose value is the result: the call each case makes.
LegacyCases(method, params) ==
  CASE method = "get_cards_by_list_id" ->
         Call("getCardsByList", <<Get(params, "boardId"), Get(params, "listId")>>)
    [] method = "get_lists" -> Call("getLists", <<Get(params, "boardId")>>)
    [] method = "get_recent_activity" ->
         Call("getRecentActivity", <<Get(params, "boardId"), Get(params, "limit")>>)
    [] method = "add_card_to_list" -> Call("addCard", <<Get(params, "boardId"), params>>)
    [] method = "update_card_details" ->
         Call("updateCard", <<Get(params, "boardId"), params>>)
    [] method = "archive_card" ->
         Call("archiveCard", <<Get(params, "boardId"), Get(params, "cardId")>>)
    [] method = "move_card" ->
         Call("moveCard",
              <<Get(params, "boardId"), Get(params, "cardId"), Get(params, "listId")>>)
    [] method = "add_list_to_board" ->
         Call("addList", <<Get(params, "boardId"), Get(params, "name")>>)
    [] method = "archive_list" ->
         Call("archiveList", <<Get(params, "boardId"), Get(params, "listId")>>)
    [] method = "get_my_cards" -> Call("getMyCards", <<>>)
    [] method = "attach_image_to_card" ->
         Call("attachImageToCard",
              <<Get(params, "boardId"), Get(params, "cardId"), Get(params, "imageUrl"),
                Get(params, "name")>>)
    [] method = "attach_file_to_card" ->
         Call("attachFileToCard",
              <<Get(params, "boardId"), Get(params, "cardId"), Get(params, "fileUrl"),
                Get(params, "name"), Get(params, "mimeType")>>)
    [] method = "list_boards" -> Call("listBoards", <<>>)
    [] method = "set_active_board" -> Call("setActiveBoard", <<Get(params, "boardId")>>)
    [] method = "list_workspaces" -> Call("listWorkspaces", <<>>)
    [] method = "create_board" -> Call("createBoard", <<params>>)
    [] method = "set_active_workspace" ->
         Call("setActiveWorkspace", <<Get(params, "workspaceId")>>)
    [] method = "list_boards_in_workspace" ->
         Call("listBoardsInWorkspace", <<Get(params, "workspaceId")>>)
    [] method = "get_card" ->
         Call("getCard", <<Get(params, "cardId"), Get(params, "includeMarkdown")>>)
    [] method = "add_comment" ->
         Call("addCommentToCard", <<Get(params, "cardId"), Get(params, "text")>>)
    [] method = "update_comment" ->
         Call("updateCommentOnCard", <<Get(params, "commentId"), Get(params, "text")>>)
    [] method = "get_checklist_items" ->
         Call("getChecklistItems", <<Get(params, "name"), Get(params, "boardId")>>)
    [] method = "add_checklist_item" ->
         Call("addChecklistItem",
              <<Get(params, "text"), Get(params, "checkListName"), Get(params, "boardId")>>)
    [] method = "find_checklist_items_by_description" ->
         Call("findChecklistItemsByDescription",
              <<Get(params, "description"), Get(params, "boardId")>>)
    [] method = "get_acceptance_criteria" ->
         Call("getAcceptanceCriteria", <<Get(params, "boardId")>>)
    [] method = "get_checklist_by_name" ->
         Call("getChecklistByName", <<Get(params, "name"), Get(params, "boardId")>>)
    [] OTHER -> NoCall

\* The upstream call of a legacy method (NoCall: the method is no such case).
\* (LegacyCallCreateActivates: case 'create_board' written as a copy of case
\* 'set_active_board', the mutant C17 is checked against.)
LegacyCallCreateActivates(method, params) ==
  IF method = "create_board"
    THEN Call("setActiveBoard", <<Get(params, "name")>>)
    ELSE LegacyCases(method, params)
LegacyCall(method, params) == LegacyCases(method, params)

\* The default case of the switch on the tool name.  (UnknownToolNoName: the
\* same with a message that leaves the name out, the mutant C10 is checked
\* against.)
UnknownToolNoName(toolName) == Throw(JsError("Unknown tool"))
UnknownTool(toolName) == Throw(JsError("Unknown tool: " \o TemplateStr(toolName)))

\* The card data create_card passes to addCard().  (CreateCardDataNameFromDesc:
\* the data with name read from the key desc, the mutant C24 is checked
\* against.)
CreateCardDataNameFromDesc(toolArguments) ==
  Obj([listId |-> Get(toolArguments, "listId"),
       name |-> Get(toolArguments, "desc"),
       description |-> Get(toolArguments, "desc")])
CreateCardData(toolArguments) ==
  Obj([listId |-> Get(toolArguments, "listId"),
       name |-> Get(toolArguments, "name"),
       description |-> Get(toolArguments, "desc")])

\* case 'tools/call': up to the first await, or the throw of the default case.
ToolsCall(params) ==
  LET toolName == Get(params, "name")
      toolArguments == OrElse(Get(params, "arguments"), EmptyObj)
      tool == IF toolName.t = "string" THEN toolName.s ELSE ""
  IN CASE toolName.t = "string" /\ tool = "search" ->
            Await(Call("listBoards", <<>>), "search")
       [] toolName.t = "string" /\ tool = "fetch" ->
            Await(Call("getBoardById", <<Get(toolArguments, "id")>>), "fetch_board")
       [] toolName.t = "string" /\ tool = "list_boards" ->
            Await(Call("listBoards", <<>>), "list_boards_race")
       [] toolName.t = "string" /\ tool = "get_cards_by_list_id" ->
            Await(Call("getCardsByList",
                       <<Get(toolArguments, "boardId"), Get(toolArguments, "listId")>>),
                  "tool_json")
       [] toolName.t = "string" /\ tool = "get_lists" ->
            Await(Call("getLists", <<Get(toolArguments, "boardId")>>), "tool_json")
       [] toolName.t = "string" /\ tool = "create_card" ->
            Await(Call("addCard",
                       <<Get(toolArguments, "boardId"), CreateCardData(toolArguments)>>),
                  "tool_json")
       [] OTHER -> UnknownTool(toolName)

\* if (!method)  (MethodMissingOnlyUndefined: a check that lets the empty
\* string through, the mutant C8 is checked against.)
MethodMissingOnlyUndefined(method) == method = Undef
MethodMissing(method) == Falsy(method)

\* The response to a request without a method.
MethodRequired(jsonrpc, id) ==
  Return(400, Obj([error |-> Str("Method is required"),
                   jsonrpc |-> Str("2.0"),
                   id |-> OrElse(id, Null)]))

\* The default case of the switch on the method.  (UnknownMethodNoName: the
\* same with a message that leaves the name out, the mutant C9 is checked
\* against.)
UnknownMethodNoName(method) == Return(400, Obj([error |-> Str("Unknown method")]))
UnknownMethod(method) ==
  Return(400, Obj([error |-> Str("Unknown method: " \o TemplateStr(method))]))

\* case 'notifications/initialized': an empty object, sent at once.
\* (NotificationAckAsResult: the case ending with break instead of return, so
\* that the acknowledgment goes through the envelope; the mutant C12 is
\* checked against.)
NotificationAckAsResult == Result(EmptyObj)
NotificationAck == Return(200, EmptyObj)

\* case 'get_active_board_info': the active board is read once, before the
\* await.  (ActiveBoardInfoNoCheck: the case without its test of the id, the
\* mutant C29 is checked against.)
ActiveBoardInfoNoCheck(activeBoard) ==
  Await(Call("getBoardById", <<activeBoard>>), "legacy")
ActiveBoardInfo(activeBoard) ==
  IF Falsy(activeBoard)
    THEN Return(400, Obj([error |-> Str("No active board set")]))
    ELSE Await(Call("getBoardById", <<activeBoard>>), "legacy")

\* The method check and switch (method): the handler from the arrival of the
\* request to its first suspension or its end.  activeBoard is
\* trelloClient.activeBoardId.
Dispatch(b, activeBoard) ==
  LET method == b.method
      params == OrElse(b.params, EmptyObj)
      id == IF Truthy(b.jsonrpc) THEN b.id ELSE Undef
      m == IF method.t = "string" THEN method.s ELSE ""
  IN IF MethodMissing(method) THEN MethodRequired(b.jsonrpc, id)
     ELSE CASE m = "initialize" -> Result(InitializeResult)
            [] m = "tools/list" -> Result(Obj([tools |-> ToolCatalog]))
            [] m = "tools/call" -> ToolsCall(params)
            [] m = "get_active_board_info" -> ActiveBoardInfo(activeBoard)
            [] m = "notifications/initialized" -> NotificationAck
            [] LegacyCall(m, params) # NoCall -> Await(LegacyCall(m, params), "legacy")
            [] OTHER -> UnknownMethod(method)

(***************************************************************************)
(* The code after each await.                                              *)
(***************************************************************************)
IsTextBoard(board) ==
  /\ board.t = "object"
  /\ Get(board, "name").t = "string"
  /\ Get(board, "desc").t = "string"

\* The filter of search: the lower-cased name or description includes query.
\* (SearchMatchesCaseSensitive: the filter without toLowerCase() on the
\* board's texts, the mutant C18 is checked against.)
SearchMatchesCaseSensitive(board, query) ==
  \/ Includes(Get(board, "name").s, query)
  \/ Includes(Get(board, "desc").s, query)
SearchMatches(board, query) ==
  \/ Includes(ToLowerCase(Get(board, "name").s), query)
  \/ Includes(ToLowerCase(Get(board, "desc").s), query)

SearchProjection(board) ==
  Obj([id |-> Get(board, "id"), title |-> Get(board, "name"), url |-> Get(board, "url")])

\* case 'search', after listBoards() resolved with allBoards.
SearchResult(toolArguments, allBoards) ==
  LET q == Get(toolArguments, "query")
  IN IF q.t # "string"
       THEN Throw(JsError("Cannot read properties of undefined (reading 'toLowerCase')"))
     ELSE IF allBoards.t # "array"
       THEN Throw(JsError("allBoards.filter is not a function"))
     ELSE IF \E i \in DOMAIN allBoards.a : ~IsTextBoard(allBoards.a[i])
       THEN Throw(JsError("Cannot read properties of undefined (reading 'toLowerCase')"))
     ELSE LET query == ToLowerCase(q.s)
              Keep(board) == SearchMatches(board, query)
              matches == SelectSeq(allBoards.a, Keep)
              searchResults == Arr([i \in DOMAIN matches |-> SearchProjection(matches[i])])
          IN Result(JsonStringify(Obj([results |-> searchResults])))

\* case 'fetch', after getBoardById(id) resolved with board.
FetchBoardResult(board) ==
  Obj([id |-> Get(board, "id"),
       title |-> Get(board, "name"),
       text |-> OrElse(Get(board, "desc"),
                       Str("Tableau Trello: " \o TemplateStr(Get(board, "name")))),
       url |-> Get(board, "url"),
       metadata |-> Obj([type |-> Str("board"),
                         closed |-> Get(board, "closed"),
                         organization |-> Get(board, "idOrganization")])])

\* case 'fetch', after getLists(id) resolved with a list that has a first element.
\* (FetchListResultTypedBoard: the object with the metadata of the board
\* branch left in, the mutant C19 is checked against.)
FetchListResultTypedBoard(id, list) ==
  Obj([id |-> Get(list, "id"),
       title |-> Get(list, "name"),
       text |-> Str("Liste Trello: " \o TemplateStr(Get(list, "name"))),
       url |-> Str("https://trello.com/b/" \o TemplateStr(id)),
       metadata |-> Obj([type |-> Str("board"),
                         closed |-> Get(list, "closed"),
                         organization |-> Get(list, "idOrganization")])])
FetchListResult(id, list) ==
  Obj([id |-> Get(list, "id"),
       title |-> Get(list, "name"),
       text |-> Str("Liste Trello: " \o TemplateStr(Get(list, "name"))),
       url |-> Str("https://trello.com/b/" \o TemplateStr(id)),
       metadata |-> Obj([type |-> Str("list"),
                         closed |-> Get(list, "closed"),
                         boardId |-> Get(list, "idBoard")])])

NotFound(id) == JsError("No resource found with ID " \o TemplateStr(id))

\* boards.filter(open).slice(0, 5).map(projection) of list_boards.
RECURSIVE Take(_, _)
Take(seq, n) ==
  IF n = 0 \/ seq = <<>> THEN <<>> ELSE <<Head(seq)>> \o Take(Tail(seq), n - 1)

\* (IsOpenBoardAny: a filter that keeps every board, the mutant C28 is checked
\* against.)
IsOpenBoardAny(board) == TRUE
IsOpenBoard(board) == Falsy(Get(board, "closed"))

RecentBoards(boards) ==
  LET open == Take(SelectSeq(boards.a, IsOpenBoard), MaxBoards)
  IN Arr([i \in DOMAIN open |->
            Obj([id |-> Get(open[i], "id"),
                 name |-> Get(open[i], "name"),
                 url |-> Get(open[i], "shortUrl")])])

\* The catch block of list_boards: a result that carries an error marker.
ListBoardsFailure(error) ==
  JsonStringify(Obj([error |-> Str("Failed to fetch boards"),
                     message |-> Str(IF error.t = "error" THEN error.message
                                     ELSE "Unknown error"),
                     boards |-> Arr(<<>>)]))

ToolArguments(b) ==
  OrElse(Get(OrElse(b.params, EmptyObj), "arguments"), EmptyObj)

\* The handler resumes: the awaited promise resolved with v.
\* (OnResolveStructured: the direct tools without JSON.stringify, the mutant
\* C21 is checked against.)
OnResolveStructured(b, cont, v) ==
  CASE cont \in {"legacy", "tool_json"} -> Result(v)
    [] cont = "search" -> SearchResult(ToolArguments(b), v)
    [] cont = "fetch_board" ->
         IF v.t = "object"
           THEN Result(JsonStringify(FetchBoardResult(v)))
           ELSE Await(Call("getLists", <<Get(ToolArguments(b), "id")>>), "fetch_lists")
    [] cont = "fetch_lists" ->
         IF v.t = "array" /\ Len(v.a) > 0 /\ v.a[1].t = "object"
           THEN Result(JsonStringify(FetchListResult(Get(ToolArguments(b), "id"), v.a[1])))
           ELSE Throw(NotFound(Get(ToolArguments(b), "id")))
    [] cont = "list_boards_race" ->
         IF v.t = "array" /\ \A i \in DOMAIN v.a : v.a[i].t = "object"
           THEN Result(JsonStringify(RecentBoards(v)))
           ELSE Result(ListBoardsFailure(JsError("boards.filter is not a function")))
OnResolve(b, cont, v) ==
  CASE cont = "legacy" -> Result(v)
    [] cont = "tool_json" -> Result(JsonStringify(v))
    [] cont = "search" -> SearchResult(ToolArguments(b), v)
    [] cont = "fetch_board" ->
         IF v.t = "object"
           THEN Result(JsonStringify(FetchBoardResult(v)))
           ELSE Await(Call("getLists", <<Get(ToolArguments(b), "id")>>), "fetch_lists")
    [] cont = "fetch_lists" ->
         IF v.t = "array" /\ Len(v.a) > 0 /\ v.a[1].t = "object"
           THEN Result(JsonStringify(FetchListResult(Get(ToolArguments(b), "id"), v.a[1])))
           ELSE Throw(NotFound(Get(ToolArguments(b), "id")))
    [] cont = "list_boards_race" ->
         IF v.t = "array" /\ \A i \in DOMAIN v.a : v.a[i].t = "object"
           THEN Result(JsonStringify(RecentBoards(v)))
           ELSE Result(ListBoardsFailure(JsError("boards.filter is not a function")))

\* The handler resumes: the awaited promise rejected with e.
\* (OnRejectRetries: a direct tool that makes its call again when it was
\* rejected, the mutant C23 is checked against.)
OnRejectRetries(b, cont, e) ==
  CASE cont \in {"legacy", "search"} -> Throw(e)
    [] cont = "tool_json" -> ToolsCall(OrElse(b.params, EmptyObj))
    [] cont = "fetch_board" ->
         Await(Call("getLists", <<Get(ToolArguments(b), "id")>>), "fetch_lists")
    [] cont = "fetch_lists" -> Throw(NotFound(Get(ToolArguments(b), "id")))
    [] cont = "list_boards_race" -> Result(ListBoardsFailure(e))
\* (OnRejectNoToolCatch: list_boards without its try/catch, the mutant C13 is
\* checked against.)
OnRejectNoToolCatch(b, cont, e) ==
  CASE cont \in {"legacy", "tool_json", "search", "list_boards_race"} -> Throw(e)
    [] cont = "fetch_board" ->
         Await(Call("getLists", <<Get(ToolArguments(b), "id")>>), "fetch_lists")
    [] cont = "fetch_lists" -> Throw(NotFound(Get(ToolArguments(b), "id")))
OnReject(b, cont, e) ==
  CASE cont \in {"legacy", "tool_json", "search"} -> Throw(e)
    [] cont = "fetch_board" ->
         Await(Call("getLists", <<Get(ToolArguments(b), "id")>>), "fetch_lists")
    [] cont = "fetch_lists" -> Throw(NotFound(Get(ToolArguments(b), "id")))
    [] cont = "list_boards_race" -> Result(ListBoardsFailure(e))

(***************************************************************************)
(* The response envelopes.                                                 *)
(***************************************************************************)
\* The success envelope: JSON-RPC when the body had a truthy jsonrpc.
\* (SuccessEnvelopeWithError: an envelope that also carries error: null, the
\* mutant C5 is checked against.)
SuccessEnvelopeWithError(b, result) ==
  IF Truthy(b.jsonrpc)
    THEN Obj([jsonrpc |-> Str("2.0"), result |-> result, error |-> Null, id |-> b.id])
    ELSE Obj([result |-> result, error |-> Null])
SuccessEnvelope(b, result) ==
  IF Truthy(b.jsonrpc)
    THEN Obj([jsonrpc |-> Str("2.0"), result |-> result, id |-> b.id])
    ELSE Obj([result |-> result])

\* error instanceof Error ? error.message : 'Unknown error occurred'
ErrorMessage(error) ==
  IF error.t = "error" THEN error.message ELSE "Unknown error occurred"

\* The envelope of the catch block.
ErrorEnvelope(b, error) ==
  IF Truthy(b.jsonrpc)
    THEN Obj([jsonrpc |-> Str("2.0"),
              error |-> Obj([code |-> Num(InternalErrorCode),
                             message |-> Str(ErrorMessage(error))]),
              id |-> OrElse(b.id, Null)])
    ELSE Obj([error |-> Str(ErrorMessage(error))])

\* The envelope of the outer timer's callback.
TimeoutEnvelope(b) ==
  Obj([jsonrpc |-> Str("2.0"),
       error |-> Obj([code |-> Num(InternalErrorCode), message |-> Str("Request timeout")]),
       id |-> OrElse(b.id, Null)])

(***************************************************************************)
(* State.                                                                  *)
(***************************************************************************)
VARIABLES
  reqs,               \* slot -> the request in it: its body, the handler's
                      \* position, its timers, its response and upstream calls
  activeBoardId,      \* trelloClient.activeBoardId
  activeWorkspaceId,  \* the active workspace of the Trello client
  arrived,            \* how many requests have arrived
  sse,                \* connection -> the GET /sse stream on it
  toolsResponse       \* the body GET /tools last answered with (null: none yet)

vars == <<reqs, activeBoardId, activeWorkspaceId, arrived, sse, toolsResponse>>
\* The state of the GET endpoints, which POST /mcp does not touch.
getVars == <<sse, toolsResponse>>
\* The state of POST /mcp, which the GET endpoints do not touch.
mcpVars == <<reqs, activeBoardId, activeWorkspaceId, arrived>>

\* The request slots: one (req, res) pair of the handler each.  Under Spec the
\* requests are handled one after the other, in one slot, each with every
\* interleaving of its own timers and upstream calls.
SequentialSlots == {"r1"}
Slots == DOMAIN reqs

\* A slot no request has arrived in.
\*   pc        "new" | "await" (suspended at an await) | "done" (handler ended)
\*   cont      the code after the await the handler is suspended at
\*   call      the upstream call last started; upstream: its promise
\*             ("none" | "pending" | "settled")
\*   timer     the outer timer: "none" | "armed" | "cleared" | "fired"
\*   toolTimer the list_boards timer: "none" | "armed" | "fired"
\*   writes    the res.json() calls made, in order; the first one sends the
\*             response (res.headersSent), a later one throws
\*   escaped   an exception left the handler
\*   caught    the catch block ran
\*   calls     the upstream calls started, in order
FreshRequest ==
  [pc |-> "new", body |-> NoBody, cont |-> "", call |-> NoCall, upstream |-> "none",
   timer |-> "none", toolTimer |-> "none", writes |-> <<>>, escaped |-> FALSE,
   caught |-> FALSE, calls |-> <<>>]

HeadersSent(st) == st.writes # <<>>

\* The connections a peer may open GET /sse on.
SseConnections == {"s1", "s2", "s3"}
\* A connection no GET /sse request has arrived on.
\*   conn      "none" | "open" | "closed" (the request's close event ran)
\*   keepAlive the interval: "none" | "set" | "cleared"
\*   events    the events written with res.write(), in order
NoStream == [conn |-> "none", keepAlive |-> "none", events |-> <<>>]

\* res.status(status).json(obj): sends the response, or throws
\* ERR_HTTP_HEADERS_SENT when one was sent (nothing catches it).
ResJson(st, status, obj) ==
  [st EXCEPT !.writes = Append(@, [status |-> status, body |-> JsonOf(obj)]),
             !.escaped = @ \/ HeadersSent(st)]

\* clearTimeout(timeout)
ClearTimeout(st) ==
  [st EXCEPT !.timer = IF @ = "armed" THEN "cleared" ELSE @]

\* The end of the try block: the envelope, clearTimeout, and the send guarded
\* by res.headersSent.
SendSuccess(st, result) ==
  LET cleared == ClearTimeout(st)
  IN IF HeadersSent(cleared) THEN cleared
     ELSE ResJson(cleared, 200, SuccessEnvelope(st.body, result))

\* The catch block: clearTimeout and the error envelope with status 500.
CatchError(st, error) ==
  ResJson([ClearTimeout(st) EXCEPT !.caught = TRUE], 500, ErrorEnvelope(st.body, error))

\* The request st after a run of the handler that ended with outcome o.
Finish(st, o) ==
  CASE o.kind = "return" -> [ResJson(st, o.status, o.obj) EXCEPT !.pc = "done", !.cont = ""]
    [] o.kind = "result" -> [SendSuccess(st, o.value) EXCEPT !.pc = "done", !.cont = ""]
    [] o.kind = "throw" -> [CatchError(st, o.error) EXCEPT !.pc = "done", !.cont = ""]
    [] o.kind = "await" ->
         [st EXCEPT !.pc = "await", !.cont = o.cont, !.call = o.call,
                    !.upstream = "pending", !.calls = Append(@, o.call),
                    !.toolTimer = IF o.cont = "list_boards_race" THEN "armed" ELSE @]

\* The handler is suspended at the await of its upstream call (for
\* list_boards: at the await of the race that call is in).
Awaiting(st) == st.pc = "await"

Init ==
  /\ reqs = [r \in SequentialSlots |-> FreshRequest]
  /\ activeBoardId \in {Undef, Str("B1")}
  /\ activeWorkspaceId = Undef
  /\ arrived = 0
  /\ sse = [c \in SseConnections |-> NoStream]
  /\ toolsResponse = Null

\* A POST /mcp request with body b arrives: setTimeout, then the handler
\* runs to its first await or to its end.
Receive(r, b) ==
  /\ reqs[r].pc = "new"
  /\ arrived < MaxRequests
  /\ arrived' = arrived + 1
  /\ reqs' = [reqs EXCEPT ![r] =
                Finish([FreshRequest EXCEPT !.body = b, !.timer = "armed"],
                       Dispatch(b, activeBoardId))]
  /\ UNCHANGED <<activeBoardId, activeWorkspaceId, getVars>>

\* The upstream call of r resolves with v; the handler resumes when it still
\* awaits it.
UpstreamResolve(r, v) ==
  LET st == reqs[r]
      settled == [st EXCEPT !.upstream = "settled"]
      session == SessionAfter(st.call, activeBoardId, activeWorkspaceId)
  IN /\ st.upstream = "pending"
     /\ v \in UpstreamValues(st.call.op)
     /\ activeBoardId' = session[1]
     /\ activeWorkspaceId' = session[2]
     /\ reqs' = [reqs EXCEPT ![r] =
                   IF Awaiting(st) THEN Finish(settled, OnResolve(st.body, st.cont, v))
                   ELSE settled]
     /\ UNCHANGED <<arrived, getVars>>

\* The upstream call of r rejects with e.
UpstreamReject(r, e) ==
  LET st == reqs[r]
      settled == [st EXCEPT !.upstream = "settled"]
  IN /\ st.upstream = "pending"
     /\ reqs' = [reqs EXCEPT ![r] =
                   IF Awaiting(st) THEN Finish(settled, OnReject(st.body, st.cont, e))
                   ELSE settled]
     /\ UNCHANGED <<activeBoardId, activeWorkspaceId, arrived, getVars>>

\* The per-tool timer of list_boards expires: the race rejects when the
\* upstream call has not settled it.  (ToolTimerFireIgnored: a timer whose
\* callback rejects nothing, the mutant C27 is checked against.)
ToolTimerFireIgnored(r) ==
  /\ reqs[r].toolTimer = "armed"
  /\ reqs' = [reqs EXCEPT ![r].toolTimer = "fired"]
  /\ UNCHANGED <<activeBoardId, activeWorkspaceId, arrived, getVars>>
ToolTimerFire(r) ==
  LET st == reqs[r]
      fired == [st EXCEPT !.toolTimer = "fired"]
  IN /\ st.toolTimer = "armed"
     /\ reqs' = [reqs EXCEPT ![r] =
                   IF Awaiting(st) /\ st.cont = "list_boards_race"
                     THEN Finish(fired, OnReject(st.body, st.cont,
                                                 JsError("Trello API timeout")))
                     ELSE fired]
     /\ UNCHANGED <<activeBoardId, activeWorkspaceId, arrived, getVars>>

\* The callback of the outer timer: the timeout envelope, unless a response
\* was sent.  (TimeoutCallbackInverted: the callback with its headersSent
\* test inverted, the mutant C3 is checked against.)
TimeoutCallbackInverted(st) ==
  LET fired == [st EXCEPT !.timer = "fired"]
  IN IF ~HeadersSent(st) THEN fired
     ELSE ResJson(fired, 500, TimeoutEnvelope(st.body))
TimeoutCallback(st) ==
  LET fired == [st EXCEPT !.timer = "fired"]
  IN IF HeadersSent(st) THEN fired
     ELSE ResJson(fired, 500, TimeoutEnvelope(st.body))

\* The outer timer expires.  Both timers of a request are set in the same
\* run, so the shorter one expires first.
TimerFire(r) ==
  /\ reqs[r].timer = "armed"
  /\ ~(reqs[r].toolTimer = "armed" /\ ToolTimeoutMs < OuterTimeoutMs)
  /\ reqs' = [reqs EXCEPT ![r] = TimeoutCallback(reqs[r])]
  /\ UNCHANGED <<activeBoardId, activeWorkspaceId, arrived, getVars>>

\* The request of slot r is over (its handler ended, no timer or upstream
\* call of it is outstanding): the slot takes the next request.
Retire(r) ==
  /\ reqs[r].pc = "done"
  /\ reqs[r].timer # "armed"
  /\ reqs[r].toolTimer # "armed"
  /\ reqs[r].upstream # "pending"
  /\ reqs' = [reqs EXCEPT ![r] = FreshRequest]
  /\ UNCHANGED <<activeBoardId, activeWorkspaceId, arrived, getVars>>

(***************************************************************************)
(* GET /tools and GET /sse.                                                *)
(***************************************************************************)
\* The names GET /tools lists.  (ToolsEndpointNamesLegacy: names of the
\* legacy direct methods instead, the mutant C30 is checked against.)
ToolsEndpointNamesLegacy ==
  <<"get_cards_by_list_id", "get_lists", "list_boards", "set_active_board">>
ToolsEndpointNames ==
  <<"search", "fetch", "list_boards", "get_cards_by_list_id", "get_lists", "create_card">>

\* GET /tools: the names, their count and a description.
GetTools ==
  /\ toolsResponse' =
       JsonOf(Obj([tools |-> Arr([i \in DOMAIN ToolsEndpointNames |->
                                    Str(ToolsEndpointNames[i])]),
                   count |-> Num(Len(ToolsEndpointNames)),
                   description |-> Str("Available Trello MCP tools - conform to OpenAI MCP specification")]))
  /\ UNCHANGED <<mcpVars, sse>>

\* GET /sse on connection c: the headers, the connection event, the
\* keepalive interval and the close listener.
SseOpen(c) ==
  /\ sse[c].conn = "none"
  /\ sse' = [sse EXCEPT ![c] = [conn |-> "open", keepAlive |-> "set",
                                 events |-> <<"connection">>]]
  /\ UNCHANGED <<mcpVars, toolsResponse>>

\* The pings written on the stream.
Pings(stream) == Len(SelectSeq(stream.events, LAMBDA e : e = "ping"))

\* The callback of the keepalive interval: a ping.
SseTick(c) ==
  /\ sse[c].keepAlive = "set"
  /\ Pings(sse[c]) < MaxPings
  /\ sse' = [sse EXCEPT ![c].events = Append(@, "ping")]
  /\ UNCHANGED <<mcpVars, toolsResponse>>

\* The peer disconnects: the listener of the request's close event clears
\* the interval.  (SseCloseKeepsInterval: a listener that does not, the
\* mutant C22 is checked against.)
SseCloseKeepsInterval(c) ==
  /\ sse[c].conn = "open"
  /\ sse' = [sse EXCEPT ![c].conn = "closed"]
  /\ UNCHANGED <<mcpVars, toolsResponse>>
SseClose(c) ==
  /\ sse[c].conn = "open"
  /\ sse' = [sse EXCEPT ![c].conn = "closed", ![c].keepAlive = "cleared"]
  /\ UNCHANGED <<mcpVars, toolsResponse>>

Next ==
  \E r \in Slots :
    \/ \E b \in BodyInputs : Receive(r, b)
    \/ \E v \in UpstreamValues(reqs[r].call.op) : UpstreamResolve(r, v)
    \/ \E e \in UpstreamErrors : UpstreamReject(r, e)
    \/ ToolTimerFire(r)
    \/ TimerFire(r)
    \/ Retire(r)

Spec == Init /\ [][Next]_vars

\* Node runs the callback of every timer that expires.
FairSpec ==
  Spec /\ \A r \in SequentialSlots : WF_vars(TimerFire(r)) /\ WF_vars(ToolTimerFire(r))

\* The keepalive streams alone: peers open GET /sse, the intervals tick, the
\* peers disconnect.
SseNext ==
  \E c \in SseConnections : SseOpen(c) \/ SseTick(c) \/ SseClose(c)

SseSpec == Init /\ [][SseNext]_vars

\* The catalog seen from outside: GET /tools, and POST /mcp with tools/list
\* and with tools/call of each tool.
ToolsBodies ==
  {b \in BodyInputs :
     /\ b.jsonrpc = Str("2.0")
     /\ b.id = Num(1)
     /\ b.method \in {Str("tools/list"), Str("tools/call")}}

ToolsNext ==
  \/ GetTools
  \/ \E r \in Slots :
       \/ \E b \in ToolsBodies : Receive(r, b)
       \/ \E v \in UpstreamValues(reqs[r].call.op) : UpstreamResolve(r, v)
       \/ \E e \in UpstreamErrors : UpstreamReject(r, e)
       \/ ToolTimerFire(r)
       \/ TimerFire(r)
       \/ Retire(r)

ToolsSpec == Init /\ [][ToolsNext]_vars

\* Two requests in flight at once: get_active_board_info beside
\* set_active_board, each suspended at its await while the other runs.
ConcurrentSlots == {"r1", "r2"}

ConcBodies ==
  {b \in BodyInputs :
     /\ b.jsonrpc = Undef
     /\ b.id = Undef
     /\ b.method \in {Str("get_active_board_info"), Str("set_active_board")}}

ConcInit ==
  /\ reqs = [r \in ConcurrentSlots |-> FreshRequest]
  /\ activeBoardId \in {Undef, Str("B1")}
  /\ activeWorkspaceId = Undef
  /\ arrived = 0
  /\ sse = [c \in SseConnections |-> NoStream]
  /\ toolsResponse = Null

ConcNext ==
  \E r \in Slots :
    \/ \E b \in ConcBodies : Receive(r, b)
    \/ \E v \in UpstreamValues(reqs[r].call.op) : UpstreamResolve(r, v)
    \/ \E e \in UpstreamErrors : UpstreamReject(r, e)
    \/ TimerFire(r)
    \/ Retire(r)

ConcSpec == ConcInit /\ [][ConcNext]_vars

(***************************************************************************)
(* Vocabulary of the properties.                                           *)
(***************************************************************************)
\* The requests that have arrived.
Arrived == {r \in Slots : reqs[r].pc # "new"}
\* The requests a response was sent to.
Answered == {r \in Slots : reqs[r].writes # <<>>}
\* The response sent to r: the first res.json() call.
Response(r) == reqs[r].writes[1]
Keys(obj) == DOMAIN obj.o

\* The request body has a jsonrpc field (JSON-RPC format) or none (Simple).
IsJsonRpc(b) == b.jsonrpc # Undef
IsSimple(b) == b.jsonrpc = Undef
\* The method is missing or empty.
NoMethod(b) == b.method \in {Undef, Str("")}
IsNotification(b) == b.method = Str("notifications/initialized")

\* The names of the catalog tools/list returns.
CatalogNames == {Get(ToolCatalog.a[i], "name").s : i \in DOMAIN ToolCatalog.a}
MetaMethods == {"initialize", "tools/list", "tools/call", "notifications/initialized"}
\* The operation names of the outer switch.
LegacyOperations ==
  {"get_cards_by_list_id", "get_lists", "get_recent_activity", "add_card_to_list",
   "update_card_details", "archive_card", "move_card", "add_list_to_board",
   "archive_list", "get_my_cards", "attach_image_to_card", "attach_file_to_card",
   "list_boards", "set_active_board", "list_workspaces", "create_board",
   "set_active_workspace", "list_boards_in_workspace", "get_active_board_info",
   "get_card", "add_comment", "update_comment", "get_checklist_items",
   "add_checklist_item", "find_checklist_items_by_description",
   "get_acceptance_criteria", "get_checklist_by_name"}

\* The method names no protocol-meta method, cataloged tool or legacy operation.
HasUnknownMethod(b) ==
  /\ b.method.t = "string"
  /\ b.method.s # ""
  /\ b.method.s \notin MetaMethods \cup CatalogNames \cup LegacyOperations

\* tools/call with a name that is not in the catalog.
HasUnknownTool(b) ==
  /\ b.method = Str("tools/call")
  /\ Get(b.params, "name").t = "string"
  /\ Get(b.params, "name").s \notin CatalogNames

\* The message of an error body: error.message of a JSON-RPC error object,
\* or the plain error string.
ErrorText(body) ==
  LET e == Get(body, "error")
  IN IF e.t = "object" THEN Get(e, "message") ELSE e

\* A JSON-RPC error envelope {jsonrpc, error: {code, message}, id}.
IsRpcErrorEnvelope(body) ==
  /\ Keys(body) = {"jsonrpc", "error", "id"}
  /\ Get(body, "jsonrpc") = Str("2.0")
  /\ Get(body, "error").t = "object"
  /\ Keys(Get(body, "error")) = {"code", "message"}
\* A plain {error: message} body.
IsPlainError(body) ==
  /\ Keys(body) = {"error"}
  /\ Get(body, "error").t = "string"

(***************************************************************************)
(* C1  For every POST /mcp request that has a jsonrpc field and a method,  *)
(* the id of the response sent (success, caught handler error or outer     *)
(* timeout error) equals the id of the request exactly as received: null,  *)
(* a number or a string, never coerced.                                    *)
(* Fails on the code: the catch block and the timer send id || null.       *)
(***************************************************************************)
C1_IdEchoed ==
  \A r \in Answered :
    LET b == reqs[r].body
    IN (/\ IsJsonRpc(b) /\ ~NoMethod(b) /\ b.id # Undef
        /\ Keys(Response(r).body) \cap {"result", "error"} # {}
        /\ Response(r).status \in {200, 500})
       => Get(Response(r).body, "id") = b.id

C3_TimeoutResponse(r) ==
  /\ Response(r).status = 500
  /\ Get(Get(Response(r).body, "error"), "code") = Num(-32603)
  /\ Get(Response(r).body, "jsonrpc") = Str("2.0")

C3_HungRequestAnswered ==
  /\ [](\A r \in Slots :
          reqs[r].pc = "await" /\ reqs[r].timer = "fired"
            => r \in Answered /\ C3_TimeoutResponse(r))
  /\ \A r \in SequentialSlots : (r \in Arrived) ~> (r \in Answered)

C3_Witness ==
  \E r \in Slots :
    /\ reqs[r].pc = "await"
    /\ reqs[r].upstream = "pending"
    /\ reqs[r].timer = "fired"
    /\ Len(reqs[r].writes) = 1
    /\ C3_TimeoutResponse(r)

(***************************************************************************)
(* C4  The shape of every response follows the inbound format: a response  *)
(* to a Simple request (no jsonrpc field) carries neither id nor jsonrpc,  *)
(* on every path; a result or error response to a JSON-RPC request carries *)
(* jsonrpc "2.0" and id.                                                   *)
(* Fails on the code: the missing-method and timeout responses always      *)
(* carry jsonrpc and id.                                                   *)
(***************************************************************************)
C4_ShapeFollowsFormat ==
  \A r \in Answered :
    LET b == reqs[r].body
        body == Response(r).body
    IN /\ IsSimple(b) => Keys(body) \cap {"id", "jsonrpc"} = {}
       /\ (IsJsonRpc(b) /\ b.id # Undef /\ Keys(body) \cap {"result", "error"} # {})
            => Get(body, "jsonrpc") = Str("2.0") /\ "id" \in Keys(body)

C6_ErrorsCaughtAndAnswered ==
  \A r \in Slots :
    /\ ~reqs[r].escaped
    /\ reqs[r].caught =>
         /\ Response(r).status = 500
         /\ IF IsJsonRpc(reqs[r].body)
              THEN /\ IsRpcErrorEnvelope(Response(r).body)
                   /\ Get(Get(Response(r).body, "error"), "code") = Num(-32603)
              ELSE IsPlainError(Response(r).body)

(***************************************************************************)
(* C7  MalformedRequest, UnknownMethod and UnknownTool are each answered   *)
(* with HTTP 400: a plain {error: message} for a Simple request, a         *)
(* JSON-RPC error envelope {jsonrpc, error: {code, message}, id} for a     *)
(* JSON-RPC request.                                                       *)
(* Fails on the code: an unknown tool is answered with 500, and the 400    *)
(* bodies do not follow the format.                                        *)
(***************************************************************************)
C7_ClientErrorsAre400 ==
  \A r \in Answered :
    LET b == reqs[r].body
    IN (NoMethod(b) \/ HasUnknownMethod(b) \/ HasUnknownTool(b))
       => /\ Response(r).status = 400
          /\ IF IsJsonRpc(b) THEN IsRpcErrorEnvelope(Response(r).body)
             ELSE IsPlainError(Response(r).body)

(***************************************************************************)
(* C8  A request whose method is missing or empty is answered with HTTP    *)
(* 400 before any dispatch: no upstream operation is invoked, the session  *)
(* context is unchanged, and the catch block does not run.                 *)
(***************************************************************************)
C8_Answered400(r) ==
  /\ reqs[r].pc = "done"
  /\ reqs[r].calls = <<>>
  /\ reqs[r].upstream = "none"
  /\ ~reqs[r].caught
  /\ Len(reqs[r].writes) = 1
  /\ Response(r).status = 400
  /\ ErrorText(Response(r).body) = Str("Method is required")

C8_MissingMethodShortCircuits ==
  /\ [](\A r \in Arrived : NoMethod(reqs[r].body) => C8_Answered400(r))
  /\ [][\A r \in Slots :
          (reqs[r].pc = "new" /\ reqs'[r].pc # "new" /\ NoMethod(reqs'[r].body))
            => /\ activeBoardId' = activeBoardId
               /\ activeWorkspaceId' = activeWorkspaceId]_vars

C8_Witness ==
  \E r \in Arrived :
    /\ reqs[r].body.method = Str("")
    /\ reqs[r].body.params # Undef
    /\ C8_Answered400(r)

(***************************************************************************)
(* C9  A request whose method is neither a protocol-meta method, a         *)
(* cataloged tool nor a legacy operation name is answered with HTTP 400    *)
(* and a message that contains the method name, with no upstream call.     *)
(***************************************************************************)
C9_Answered400(r) ==
  /\ reqs[r].pc = "done"
  /\ reqs[r].calls = <<>>
  /\ Len(reqs[r].writes) = 1
  /\ Response(r).status = 400
  /\ ErrorText(Response(r).body).t = "string"
  /\ Includes(ErrorText(Response(r).body).s, reqs[r].body.method.s)

C9_UnknownMethodIs400 ==
  \A r \in Arrived : HasUnknownMethod(reqs[r].body) => C9_Answered400(r)

C9_Witness ==
  \E r \in Arrived :
    /\ reqs[r].body.method = Str("resources/list")
    /\ C9_Answered400(r)
    /\ ErrorText(Response(r).body) = Str("Unknown method: resources/list")

(***************************************************************************)
(* C10  tools/call with a params.name that is not in the tool catalog      *)
(* yields an UnknownTool error whose message names that tool, and no       *)
(* upstream operation is invoked for it.                                   *)
(***************************************************************************)
C10_UnknownToolError(r) ==
  /\ reqs[r].pc = "done"
  /\ reqs[r].calls = <<>>
  /\ r \in Answered
  /\ "error" \in Keys(Response(r).body)
  /\ "result" \notin Keys(Response(r).body)
  /\ ErrorText(Response(r).body).t = "string"
  /\ Includes(ErrorText(Response(r).body).s, "Unknown tool")
  /\ Includes(ErrorText(Response(r).body).s, Get(reqs[r].body.params, "name").s)

C10_UnknownToolNamed ==
  \A r \in Arrived : HasUnknownTool(reqs[r].body) => C10_UnknownToolError(r)

C10_Witness ==
  \E r \in Arrived :
    /\ HasUnknownTool(reqs[r].body)
    /\ Get(reqs[r].body.params, "name") = Str("nope")
    /\ C10_UnknownToolError(r)
    /\ ErrorText(Response(r).body) = Str("Unknown tool: nope")

(***************************************************************************)
(* C11  For every cataloged tool name N and arguments A, a direct request  *)
(* {method: N, params: A} is dispatched the same as tools/call with        *)
(* {name: N, arguments: A}: it makes the same upstream calls and yields    *)
(* the same result.                                                        *)
(* Fails on the code: search, fetch and create_card are no case of the     *)
(* outer switch, and the legacy cases return the upstream value itself,    *)
(* not its JSON text.                                                      *)
(***************************************************************************)
\* The method of the body is the name of a cataloged tool.
IsDirectTool(b) == b.method.t = "string" /\ b.method.s \in CatalogNames
\* The tools/call request with the same name and arguments.
AsToolsCall(b) ==
  [b EXCEPT !.method = Str("tools/call"), !.params = ToolCall(b.method, b.params)]
\* The results tools/call gives the body t whose first run awaits o: one for
\* each way the awaited call settles.
ToolsCallResults(t, o) ==
  {JsonOf(x.value) :
     x \in {y \in {OnResolve(t, o.cont, v) : v \in UpstreamValues(o.call.op)}
                  \cup {OnReject(t, o.cont, e) : e \in UpstreamErrors} :
              y.kind = "result"}}

C12_Acknowledged(r) ==
  /\ reqs[r].pc = "done"
  /\ reqs[r].calls = <<>>
  /\ reqs[r].upstream = "none"
  /\ Len(reqs[r].writes) = 1
  /\ Response(r).status = 200
  /\ Response(r).body.t = "object"
  /\ Keys(Response(r).body) = {}

C12_NotificationAcknowledged ==
  \A r \in Arrived : IsNotification(reqs[r].body) => C12_Acknowledged(r)

\* A JSON-RPC notification that carries an id, after its outer timer ran.
C12_Witness ==
  \E r \in Arrived :
    /\ IsNotification(reqs[r].body)
    /\ reqs[r].body.jsonrpc = Str("2.0")
    /\ reqs[r].body.id = Num(1)
    /\ reqs[r].timer = "fired"
    /\ C12_Acknowledged(r)

(***************************************************************************)
(* C13  When tools/call list_boards is invoked and the upstream list-boards *)
(* call has not resolved when the short per-tool timer expires, the        *)
(* response is HTTP 200 with a result carrying an explicit error marker    *)
(* and an empty boards sequence, not an error envelope; the longer outer   *)
(* timer does not pre-empt it.                                             *)
(***************************************************************************)
IsListBoardsTool(b) ==
  b.method = Str("tools/call") /\ Get(b.params, "name") = Str("list_boards")

\* The text of a JSON string result, parsed (undefined when the result is no
\* JSON string).
ParsedResult(body) ==
  LET result == Get(body, "result")
  IN IF result.t = "string" /\ "json" \in DOMAIN result THEN result.json ELSE Undef

\* The response of r is a 200 whose result has an error marker and no board.
C13_FailureResult(r) ==
  /\ Len(reqs[r].writes) = 1
  /\ Response(r).status = 200
  /\ "error" \notin Keys(Response(r).body)
  /\ Get(ParsedResult(Response(r).body), "error") = Str("Failed to fetch boards")
  /\ Get(ParsedResult(Response(r).body), "boards") = Arr(<<>>)

C13_ToolTimeoutIsResult ==
  \A r \in Arrived :
    IsListBoardsTool(reqs[r].body)
      => \* the per-tool timer expired before the upstream call settled
         /\ (reqs[r].toolTimer = "fired" /\ reqs[r].upstream = "pending")
              => /\ reqs[r].pc = "done"
                 /\ ~reqs[r].caught
                 /\ reqs[r].timer = "cleared"
                 /\ C13_FailureResult(r)
         \* the outer timer does not expire while the race is undecided
         /\ reqs[r].pc = "await" => reqs[r].timer = "armed" /\ reqs[r].writes = <<>>

C13_Witness ==
  \E r \in Arrived :
    /\ IsListBoardsTool(reqs[r].body)
    /\ reqs[r].toolTimer = "fired"
    /\ reqs[r].upstream = "pending"
    /\ C13_FailureResult(r)
    /\ Get(ParsedResult(Response(r).body), "message") = Str("Trello API timeout")

(***************************************************************************)
(* C14  Every upstream call made while handling a POST /mcp request is     *)
(* raced against a per-call timer, and whichever of upstream completion    *)
(* and timer expiry happens first determines the tool result.              *)
(* Fails on the code: only tools/call list_boards sets a timer for its     *)
(* call; every other call is awaited bare.                                 *)
(***************************************************************************)
C14_EveryCallRaced ==
  \A r \in Arrived :
    \* a timer was set with the call
    /\ reqs[r].calls # <<>> => reqs[r].toolTimer # "none"
    \* the handler waits only while the race is undecided
    /\ reqs[r].pc = "await" => reqs[r].toolTimer = "armed" /\ reqs[r].upstream = "pending"
    \* the timer expired first: the result is the timer's
    /\ (reqs[r].toolTimer = "fired" /\ reqs[r].upstream = "pending") => reqs[r].pc = "done"

(***************************************************************************)
(* C15  For every timeout race (per-tool and outer per-request), the       *)
(* eventual completion of the losing upstream call is discarded: after the *)
(* timer has won, that completion changes neither activeBoardId nor        *)
(* activeWorkspaceId and causes no response write; in particular a         *)
(* set_active_board or set_active_workspace request that was answered with *)
(* the timeout error leaves SessionContext as it was.                      *)
(* Fails on the code: the handler stays suspended at its await after the   *)
(* timer's response, nothing cancels the call, and the catch block writes. *)
(***************************************************************************)
\* A timer of the request expired while its upstream call was pending: the
\* outer timer with the handler still suspended, or the per-tool timer.
TimerWon(st) ==
  /\ st.upstream = "pending"
  /\ \/ st.timer = "fired" /\ st.pc = "await"
     \/ st.toolTimer = "fired"

\* In this step the pending upstream call of r settles.
Settles(r) ==
  /\ reqs[r].upstream = "pending"
  /\ reqs'[r].upstream = "settled" \/ Len(reqs'[r].calls) > Len(reqs[r].calls)

C15_LoserDiscarded ==
  [][\A r \in Slots :
       (TimerWon(reqs[r]) /\ Settles(r))
         => /\ activeBoardId' = activeBoardId
            /\ activeWorkspaceId' = activeWorkspaceId
            /\ reqs'[r].writes = reqs[r].writes]_vars

(***************************************************************************)
(* C16  For every tool or method that needs a board id (get_lists,         *)
(* get_cards_by_list_id, create_card and the legacy board operations),     *)
(* when the arguments carry no boardId the handler falls back to           *)
(* SessionContext.activeBoardId, and when that is unset too it fails with  *)
(* MissingContext without invoking upstream: the upstream client is never  *)
(* called with an undefined board id.                                      *)
(* Fails on the code: the handler passes params.boardId through as it is.  *)
(***************************************************************************)
\* The upstream operations whose first argument is the board id.
BoardOperations ==
  {"getCardsByList", "getLists", "getRecentActivity", "addCard", "updateCard",
   "archiveCard", "moveCard", "addList", "archiveList", "attachImageToCard",
   "attachFileToCard"}

\* The tools and methods that call one of them with the boardId argument.
NeedsBoardId(b) ==
  \/ /\ b.method = Str("tools/call")
     /\ Get(b.params, "name") \in
          {Str("get_lists"), Str("get_cards_by_list_id"), Str("create_card")}
  \/ /\ b.method.t = "string"
     /\ LegacyCall(b.method.s, EmptyObj).op \in BoardOperations

\* The boardId the request carries (undefined when none).
BoardIdArgument(b) ==
  IF b.method = Str("tools/call") THEN Get(ToolArguments(b), "boardId")
  ELSE Get(OrElse(b.params, EmptyObj), "boardId")

C16_BoardIdDefaulted ==
  \A r \in Arrived :
    LET b == reqs[r].body
    IN /\ \A i \in DOMAIN reqs[r].calls :
            reqs[r].calls[i].op \in BoardOperations => reqs[r].calls[i].args[1] # Undef
       /\ (NeedsBoardId(b) /\ BoardIdArgument(b) = Undef)
            => IF Truthy(activeBoardId)
                 THEN reqs[r].calls # <<>> /\ reqs[r].calls[1].args[1] = activeBoardId
                 ELSE /\ reqs[r].calls = <<>>
                      /\ r \in Answered
                      /\ "error" \in Keys(Response(r).body)

(***************************************************************************)
(* C17  After any sequence of POST /mcp requests, activeBoardId and        *)
(* activeWorkspaceId have changed only in steps handling set_active_board  *)
(* or set_active_workspace: every other method and tool (including search, *)
(* fetch, list_boards, create_board and all error paths) leaves both       *)
(* unchanged.                                                              *)
(***************************************************************************)
\* This step runs the handler of r or settles an upstream call of r.
Handles(r) == reqs'[r] # reqs[r]

C17_SessionFrame ==
  [][/\ activeBoardId' # activeBoardId
          => \E r \in Slots :
               /\ Handles(r)
               /\ reqs[r].body.method = Str("set_active_board")
               /\ activeBoardId' = Get(reqs[r].body.params, "boardId")
     /\ activeWorkspaceId' # activeWorkspaceId
          => \E r \in Slots :
               /\ Handles(r)
               /\ reqs[r].body.method = Str("set_active_workspace")
               /\ activeWorkspaceId' = Get(reqs[r].body.params, "workspaceId")]_vars

\* The second request set the active board to B2, and its call has settled.
C17_Witness ==
  \E r \in Arrived :
    /\ arrived = 2
    /\ reqs[r].body.method = Str("set_active_board")
    /\ reqs[r].upstream = "settled"
    /\ activeBoardId = Str("B2")
    /\ activeWorkspaceId = Str("W1")

(***************************************************************************)
(* C18  tools/call search(query) returns exactly those boards of the       *)
(* upstream listing whose name or description contains query compared      *)
(* case-insensitively, each as {id, title, url}, in upstream listing       *)
(* order; when no board matches, the result is an empty sequence and not   *)
(* an error.                                                               *)
(***************************************************************************)
\* tools/call search with a query string.
IsSearchTool(b) ==
  /\ b.method = Str("tools/call")
  /\ Get(b.params, "name") = Str("search")
  /\ Get(ToolArguments(b), "query").t = "string"

\* text contains query, letter case ignored.
ContainsIgnoringCase(text, query) ==
  Includes(ToLowerCase(text), ToLowerCase(query))

\* The boards of the listing that match query, in listing order, as
\* {id, title, url}.
C18_Expected(listing, query) ==
  LET Matches(board) ==
        \/ ContainsIgnoringCase(Get(board, "name").s, query)
        \/ ContainsIgnoringCase(Get(board, "desc").s, query)
      kept == SelectSeq(listing.a, Matches)
  IN Arr([i \in DOMAIN kept |->
            Obj([id |-> Get(kept[i], "id"),
                 title |-> Get(kept[i], "name"),
                 url |-> Get(kept[i], "url")])])

C18_SearchReturnsMatches ==
  [][\A r \in Slots : \A listing \in UpstreamValues("listBoards") :
       (/\ IsSearchTool(reqs[r].body)
        /\ Awaiting(reqs[r])
        /\ ~HeadersSent(reqs[r])
        /\ UpstreamResolve(r, listing))
         => /\ reqs'[r].pc = "done"
            /\ ~reqs'[r].caught
            /\ Len(reqs'[r].writes) = 1
            /\ reqs'[r].writes[1].status = 200
            /\ "error" \notin Keys(reqs'[r].writes[1].body)
            /\ Get(ParsedResult(reqs'[r].writes[1].body), "results")
                 = C18_Expected(listing, Get(ToolArguments(reqs[r].body), "query").s)]_vars

\* search("Proj") answered with the one board of two whose name matches.
C18_Witness ==
  \E r \in Answered :
    /\ IsSearchTool(reqs[r].body)
    /\ Get(ToolArguments(reqs[r].body), "query") = Str("Proj")
    /\ Response(r).status = 200
    /\ Get(ParsedResult(Response(r).body), "results")
         = Arr(<<Obj([id |-> Str("B2"), title |-> Str("Projet X"),
                      url |-> Str("https://trello.com/b/B2")])>>)

(***************************************************************************)
(* C19  tools/call fetch(id) resolves id as a board first and returns      *)
(* metadata.type "board" when that lookup succeeds; only when the board    *)
(* lookup fails does it enumerate the lists of id and return the first     *)
(* list with metadata.type "list"; when the list lookup fails or returns   *)
(* no list, it fails with NotFound naming id.                              *)
(***************************************************************************)
IsFetchTool(b) ==
  b.method = Str("tools/call") /\ Get(b.params, "name") = Str("fetch")

FetchId(b) == Get(ToolArguments(b), "id")

\* The resource of the response sent in this step to r: the parsed result.
C19_Fetched(r) == ParsedResult(reqs'[r].writes[1].body)

\* In this step the handler of r, not yet answered, ends with a 200.
C19_Succeeds(r) ==
  /\ reqs'[r].pc = "done"
  /\ ~reqs'[r].caught
  /\ Len(reqs'[r].writes) = 1
  /\ reqs'[r].writes[1].status = 200

\* In this step the handler of r, not yet answered, fails with NotFound(id).
C19_FailsNotFound(r) ==
  /\ reqs'[r].pc = "done"
  /\ reqs'[r].caught
  /\ Len(reqs'[r].writes) = 1
  /\ reqs'[r].writes[1].status = 500
  /\ "result" \notin Keys(reqs'[r].writes[1].body)
  /\ ErrorText(reqs'[r].writes[1].body).t = "string"
  /\ Includes(ErrorText(reqs'[r].writes[1].body).s, "No resource found")
  /\ Includes(ErrorText(reqs'[r].writes[1].body).s, FetchId(reqs[r].body).s)

C19_FetchBoardThenList ==
  /\ [](\A r \in Arrived :
          IsFetchTool(reqs[r].body)
            => /\ reqs[r].calls # <<>>
               /\ reqs[r].calls[1] = Call("getBoardById", <<FetchId(reqs[r].body)>>)
               /\ Len(reqs[r].calls) <= 2
               /\ Len(reqs[r].calls) = 2
                    => reqs[r].calls[2] = Call("getLists", <<FetchId(reqs[r].body)>>))
  /\ [][\A r \in Slots :
          (IsFetchTool(reqs[r].body) /\ Awaiting(reqs[r]) /\ ~HeadersSent(reqs[r]))
            => \* the board lookup succeeds: the board, and no list lookup
               /\ \A board \in UpstreamValues("getBoardById") :
                    (Len(reqs[r].calls) = 1 /\ UpstreamResolve(r, board))
                      => /\ C19_Succeeds(r)
                         /\ reqs'[r].calls = reqs[r].calls
                         /\ Get(Get(C19_Fetched(r), "metadata"), "type") = Str("board")
                         /\ Get(C19_Fetched(r), "id") = Get(board, "id")
               \* the board lookup fails: the list lookup starts, nothing is sent
               /\ \A e \in UpstreamErrors :
                    (Len(reqs[r].calls) = 1 /\ UpstreamReject(r, e))
                      => /\ Awaiting(reqs'[r])
                         /\ Len(reqs'[r].calls) = 2
                         /\ reqs'[r].writes = <<>>
               \* the list lookup returns lists: the first one
               /\ \A lists \in UpstreamValues("getLists") :
                    (Len(reqs[r].calls) = 2 /\ UpstreamResolve(r, lists))
                      => IF lists.a # <<>>
                           THEN /\ C19_Succeeds(r)
                                /\ Get(Get(C19_Fetched(r), "metadata"), "type") = Str("list")
                                /\ Get(C19_Fetched(r), "id") = Get(lists.a[1], "id")
                           ELSE C19_FailsNotFound(r)
               \* the list lookup fails
               /\ \A e \in UpstreamErrors :
                    (Len(reqs[r].calls) = 2 /\ UpstreamReject(r, e))
                      => C19_FailsNotFound(r)]_vars

\* fetch answered, after a failed board lookup, with the first list.
C19_Witness ==
  \E r \in Answered :
    /\ IsFetchTool(reqs[r].body)
    /\ Len(reqs[r].calls) = 2
    /\ Response(r).status = 200
    /\ Get(Get(ParsedResult(Response(r).body), "metadata"), "type") = Str("list")
    /\ Get(ParsedResult(Response(r).body), "id") = Str("L1")

(***************************************************************************)
(* C20  tools/list returns the same ordered sequence of tool descriptors   *)
(* on every call within a process lifetime, whatever requests were handled *)
(* in between, and in every descriptor each key listed in required is a    *)
(* key of properties.                                                      *)
(***************************************************************************)
IsToolsList(b) == b.method = Str("tools/list")

\* The names of the descriptors every tools/list call returns, in order.
C20_Names ==
  <<"search", "fetch", "list_boards", "get_cards_by_list_id", "get_lists", "create_card">>

\* The descriptors of the response sent to r.
C20_Tools(r) == Get(Get(Response(r).body, "result"), "tools")

\* Every key the descriptor requires is a key of its properties.
C20_RequiredDeclared(descriptor) ==
  LET schema == Get(descriptor, "inputSchema")
      required == Get(schema, "required")
  IN /\ required.t = "array"
     /\ \A i \in DOMAIN required.a :
          /\ required.a[i].t = "string"
          /\ required.a[i].s \in Keys(Get(schema, "properties"))

C20_CatalogStable ==
  \A r \in Arrived :
    IsToolsList(reqs[r].body)
      => /\ reqs[r].pc = "done"
         /\ reqs[r].calls = <<>>
         /\ Len(reqs[r].writes) = 1
         /\ Response(r).status = 200
         /\ C20_Tools(r).t = "array"
         /\ Len(C20_Tools(r).a) = Len(C20_Names)
         /\ \A i \in DOMAIN C20_Names :
              /\ Get(C20_Tools(r).a[i], "name") = Str(C20_Names[i])
              /\ C20_RequiredDeclared(C20_Tools(r).a[i])
         /\ C20_Tools(r) = JsonOf(ToolCatalog)

\* The second request, tools/list after a set_active_board that changed the
\* session context, answered with the six descriptors.
C20_Witness ==
  \E r \in Answered :
    /\ arrived = 2
    /\ activeBoardId = Str("B2")
    /\ IsToolsList(reqs[r].body)
    /\ Len(C20_Tools(r).a) = 6
    /\ Get(Get(C20_Tools(r).a[6], "inputSchema"), "required")
         = Arr(<<Str("listId"), Str("name")>>)

(***************************************************************************)
(* C21  For tools/call, the generic tools search and fetch return their    *)
(* result as a JSON-encoded string nested in the envelope's result field,  *)
(* whereas the direct tools (list_boards, get_lists, get_cards_by_list_id, *)
(* create_card) return structured objects directly as result.              *)
(* Fails on the code as stated: the direct tools return JSON.stringify of  *)
(* the upstream value too.  As amended (C21_ToolResultsAreJsonText): every *)
(* result of tools/call is a JSON-encoded string; the legacy methods       *)
(* return the upstream value itself.                                       *)
(***************************************************************************)
IsToolsCall(b) == b.method = Str("tools/call")
ToolName(b) == Get(b.params, "name")
GenericTools == {Str("search"), Str("fetch")}
DirectTools ==
  {Str("list_boards"), Str("get_lists"), Str("get_cards_by_list_id"), Str("create_card")}

\* The value is the text JSON.stringify made.
IsJsonText(v) == v.t = "string" /\ "json" \in DOMAIN v
\* The value is a structured JSON value: an object, an array or null.
IsStructured(v) == v.t \in {"object", "array", "null"}

\* r was answered with a success envelope.
HasResult(r) ==
  /\ r \in Answered
  /\ Response(r).status = 200
  /\ "result" \in Keys(Response(r).body)

C22_KeepaliveStream ==
  /\ [](\A c \in SseConnections :
          /\ sse[c].conn = "none" => sse[c].events = <<>>
          \* one connection event, the first one
          /\ sse[c].conn # "none"
               => /\ sse[c].events # <<>>
                  /\ sse[c].events[1] = "connection"
                  /\ \A i \in 2..Len(sse[c].events) : sse[c].events[i] = "ping"
          \* the interval runs exactly while the peer is connected
          /\ sse[c].keepAlive = "set" <=> sse[c].conn = "open"
          /\ sse[c].conn = "closed" => sse[c].keepAlive = "cleared")
  /\ [][\A c \in SseConnections :
          \* a ping is written by a tick of a connected peer's interval
          /\ (sse[c].conn # "none" /\ sse'[c].events # sse[c].events)
               => /\ sse[c].conn = "open"
                  /\ sse'[c].conn = "open"
                  /\ sse'[c].events = Append(sse[c].events, "ping")
          \* after the close event: no write, and the stream stays closed
          /\ sse[c].conn = "closed"
               => sse'[c] = sse[c]]_vars

\* A stream closed after two pings, beside one that is open.
C22_Witness ==
  \E c, d \in SseConnections :
    /\ sse[c].conn = "closed"
    /\ sse[c].keepAlive = "cleared"
    /\ sse[c].events = <<"connection", "ping", "ping">>
    /\ sse[d].conn = "open"
    /\ sse[d].events = <<"connection", "ping">>

(***************************************************************************)
(* C23  While one POST /mcp request is handled, each upstream operation is *)
(* invoked at most once: an upstream failure or timeout is surfaced to the *)
(* caller once and is never retried automatically.                         *)
(***************************************************************************)
C23_NoRetry ==
  /\ [](\A r \in Arrived :
          \* no operation twice
          /\ \A i, j \in DOMAIN reqs[r].calls :
               reqs[r].calls[i].op = reqs[r].calls[j].op => i = j
          \* one call is outstanding at a time, the last one started
          /\ reqs[r].upstream = "pending"
               => reqs[r].call = reqs[r].calls[Len(reqs[r].calls)])
  /\ [][\A r \in Slots :
          \* a rejection or a timer starts no call, but the list lookup of
          \* fetch after its board lookup failed
          /\ (reqs[r].pc # "new" /\ reqs'[r].pc # "new"
                /\ reqs'[r].calls # reqs[r].calls)
               => /\ IsFetchTool(reqs[r].body)
                  /\ reqs[r].calls = <<Call("getBoardById", <<FetchId(reqs[r].body)>>)>>
                  /\ reqs'[r].calls
                       = Append(reqs[r].calls, Call("getLists", <<FetchId(reqs[r].body)>>))
          \* once the handler has ended, it starts no call
          /\ (reqs[r].pc = "done" /\ reqs'[r].pc = "done")
               => reqs'[r].calls = reqs[r].calls]_vars

\* A direct tool whose one call was rejected, answered with the error.
C23_Witness ==
  \E r \in Answered :
    /\ IsToolsCall(reqs[r].body)
    /\ ToolName(reqs[r].body) = Str("get_lists")
    /\ reqs[r].pc = "done"
    /\ reqs[r].caught
    /\ Len(reqs[r].calls) = 1
    /\ reqs[r].upstream = "settled"
    /\ Response(r).status = 500

(***************************************************************************)
(* C24  tools/call create_card with listId and name but no desc invokes    *)
(* the upstream add-card operation exactly once with that listId and name  *)
(* unchanged, and returns the card the upstream produced as a success      *)
(* result whose name equals the given name; the missing desc causes no     *)
(* error in the adapter.                                                   *)
(***************************************************************************)
\* tools/call create_card with a listId, a name and no desc.
IsCreateCardNoDesc(b) ==
  /\ IsToolsCall(b)
  /\ ToolName(b) = Str("create_card")
  /\ Get(ToolArguments(b), "listId").t = "string"
  /\ Get(ToolArguments(b), "name").t = "string"
  /\ Get(ToolArguments(b), "desc") = Undef

C24_CreateCardWithoutDesc ==
  /\ [](\A r \in Arrived :
          IsCreateCardNoDesc(reqs[r].body)
            => \* one addCard call, with the listId and the name given
               /\ Len(reqs[r].calls) = 1
               /\ reqs[r].calls[1].op = "addCard"
               /\ Get(reqs[r].calls[1].args[2], "listId")
                    = Get(ToolArguments(reqs[r].body), "listId")
               /\ Get(reqs[r].calls[1].args[2], "name")
                    = Get(ToolArguments(reqs[r].body), "name")
               \* no error before the upstream answers
               /\ reqs[r].upstream = "pending" => ~reqs[r].caught)
  /\ [][\A r \in Slots : \A card \in UpstreamValues("addCard") :
          (/\ IsCreateCardNoDesc(reqs[r].body)
           /\ Awaiting(reqs[r])
           /\ ~HeadersSent(reqs[r])
           /\ UpstreamResolve(r, card))
            => /\ reqs'[r].pc = "done"
               /\ ~reqs'[r].caught
               /\ Len(reqs'[r].writes) = 1
               /\ reqs'[r].writes[1].status = 200
               /\ "error" \notin Keys(reqs'[r].writes[1].body)
               /\ ParsedResult(reqs'[r].writes[1].body) = card
               /\ Get(ParsedResult(reqs'[r].writes[1].body), "name")
                    = Get(ToolArguments(reqs[r].body), "name")]_vars

\* create_card(listId L1, name "Fix bug") answered with the card.
C24_Witness ==
  \E r \in Answered :
    /\ IsCreateCardNoDesc(reqs[r].body)
    /\ reqs[r].calls = <<Call("addCard", <<Undef, Obj([listId |-> Str("L1"),
                                                        name |-> Str("Fix bug"),
                                                        description |-> Undef])>>)>>
    /\ Response(r).status = 200
    /\ Get(ParsedResult(Response(r).body), "name") = Str("Fix bug")

(***************************************************************************)
(* C25  After the outer timeout has answered a POST /mcp request, a later  *)
(* successful completion of the handler's upstream call writes nothing:    *)
(* the only response the client receives is the timeout error.             *)
(* Fails on the code: when the code after the await throws (search         *)
(* without a query, fetch whose list lookup returns no list), the catch    *)
(* block calls res.json() on the answered response.                        *)
(***************************************************************************)
\* The outer timer answered r, whose handler is still suspended.
TimeoutAnswered(st) ==
  /\ st.pc = "await"
  /\ st.timer = "fired"
  /\ Len(st.writes) = 1
  /\ st.writes[1].status = 500
  /\ ErrorText(st.writes[1].body) = Str("Request timeout")

HandlerAnswered(st) ==
  /\ st.writes # <<>>
  /\ ErrorText(st.writes[1].body) # Str("Request timeout")

C26_TimerCancelledOnResponse ==
  \A r \in Arrived :
    HandlerAnswered(reqs[r]) => reqs[r].timer = "cleared"

(***************************************************************************)
(* C27  tools/call list_boards is answered with HTTP 200 and a result,     *)
(* never with an error envelope, in every case: upstream success, upstream *)
(* rejection, and upstream never resolving.  (Under FairSpec.)             *)
(***************************************************************************)
C27_ListBoardsAlways200 ==
  /\ [](\A r \in Arrived :
          IsListBoardsTool(reqs[r].body)
            => /\ ~reqs[r].caught
               /\ Len(reqs[r].writes) <= 1
               /\ reqs[r].pc = "done" => r \in Answered
               /\ r \in Answered
                    => /\ Response(r).status = 200
                       /\ "result" \in Keys(Response(r).body)
                       /\ "error" \notin Keys(Response(r).body)
                       /\ IsJsonText(Get(Response(r).body, "result")))
  /\ \A r \in SequentialSlots :
       (r \in Arrived /\ IsListBoardsTool(reqs[r].body)) ~> (r \in Answered)

\* list_boards whose upstream call was rejected, answered 200.
C27_Witness ==
  \E r \in Answered :
    /\ IsListBoardsTool(reqs[r].body)
    /\ reqs[r].upstream = "settled"
    /\ reqs[r].toolTimer = "armed"
    /\ Response(r).status = 200
    /\ Get(ParsedResult(Response(r).body), "message")
         = Str("Request failed with status code 404")

(***************************************************************************)
(* C28  When the upstream listing succeeds in time, tools/call list_boards *)
(* returns at most 5 boards, none of them closed, which are exactly the    *)
(* first open boards of the upstream listing in upstream order, each       *)
(* projected to {id, name, url}.                                           *)
(***************************************************************************)
\* The boards of the listing that are not closed, in listing order.
OpenBoards(listing) ==
  SelectSeq(listing.a, LAMBDA board : Get(board, "closed") # Bool(TRUE))

C28_FirstOpenBoards ==
  [][\A r \in Slots : \A listing \in UpstreamValues("listBoards") :
       (/\ IsListBoardsTool(reqs[r].body)
        /\ Awaiting(reqs[r])
        /\ ~HeadersSent(reqs[r])
        /\ UpstreamResolve(r, listing))
         => LET boards == ParsedResult(reqs'[r].writes[1].body)
                open == OpenBoards(listing)
            IN /\ Len(reqs'[r].writes) = 1
               /\ reqs'[r].writes[1].status = 200
               /\ boards.t = "array"
               /\ Len(boards.a) <= 5
               /\ Len(boards.a) = IF Len(open) < 5 THEN Len(open) ELSE 5
               /\ \A i \in DOMAIN boards.a :
                    /\ Keys(boards.a[i]) = {"id", "name", "url"}
                    /\ Get(boards.a[i], "id") = Get(open[i], "id")
                    /\ Get(boards.a[i], "name") = Get(open[i], "name")
                    /\ Get(boards.a[i], "url") = Get(open[i], "shortUrl")]_vars

\* A listing of eight boards, six of them open, answered with the first five
\* open ones.
C28_Witness ==
  \E r \in Answered :
    /\ IsListBoardsTool(reqs[r].body)
    /\ Response(r).status = 200
    /\ ParsedResult(Response(r).body).t = "array"
    /\ [i \in 1..Len(ParsedResult(Response(r).body).a) |->
          Get(ParsedResult(Response(r).body).a[i], "id")]
         = <<Str("N1"), Str("N3"), Str("N4"), Str("N5"), Str("N6")>>

(***************************************************************************)
(* C29  get_active_board_info calls the upstream board lookup only when    *)
(* activeBoardId is set, and always with the value activeBoardId had when  *)
(* the request was dispatched, even if a concurrent set_active_board       *)
(* changes it before the lookup returns; when activeBoardId is unset it    *)
(* answers HTTP 400 'No active board set' with no upstream call.  (Under   *)
(* ConcSpec.)                                                              *)
(***************************************************************************)
IsActiveBoardInfo(b) == b.method = Str("get_active_board_info")

C29_LookupOfDispatchedBoard ==
  /\ [](\A r \in Arrived :
          IsActiveBoardInfo(reqs[r].body)
            => \* never a lookup of an undefined board
               /\ \A i \in DOMAIN reqs[r].calls :
                    /\ reqs[r].calls[i].op = "getBoardById"
                    /\ Truthy(reqs[r].calls[i].args[1])
               /\ Len(reqs[r].calls) <= 1
               \* no lookup: the 400, sent by the handler
               /\ reqs[r].calls = <<>>
                    => /\ reqs[r].pc = "done"
                       /\ Len(reqs[r].writes) = 1
                       /\ Response(r).status = 400
                       /\ ErrorText(Response(r).body) = Str("No active board set"))
  /\ [][\A r \in Slots :
          \* the request is dispatched: the lookup is of the board active now
          /\ (reqs[r].pc = "new" /\ reqs'[r].pc # "new"
                /\ IsActiveBoardInfo(reqs'[r].body))
               => IF activeBoardId = Undef
                    THEN reqs'[r].calls = <<>>
                    ELSE reqs'[r].calls = <<Call("getBoardById", <<activeBoardId>>)>>
          \* whatever happens then, the lookup stays the one dispatched
          /\ (reqs[r].pc # "new" /\ reqs'[r].pc # "new"
                /\ IsActiveBoardInfo(reqs[r].body))
               => /\ reqs'[r].calls = reqs[r].calls
                  /\ reqs[r].upstream = "pending" => reqs'[r].call = reqs[r].call]_vars

\* The lookup of B1 is pending while a concurrent set_active_board has made
\* B2 the active board.
C29_Witness ==
  \E r, q \in Arrived :
    /\ IsActiveBoardInfo(reqs[r].body)
    /\ reqs[r].upstream = "pending"
    /\ reqs[r].calls = <<Call("getBoardById", <<Str("B1")>>)>>
    /\ reqs[q].body.method = Str("set_active_board")
    /\ reqs[q].upstream = "settled"
    /\ activeBoardId = Str("B2")

(***************************************************************************)
(* C30  The names returned by GET /tools are exactly the names of the      *)
(* descriptors returned by tools/list, in the same order, and tools/call   *)
(* accepts each of them: none is answered 'Unknown tool'.  (Under          *)
(* ToolsSpec.)                                                             *)
(***************************************************************************)
\* The names of a sequence of tool descriptors, in order.
DescriptorNames(tools) == [i \in DOMAIN tools.a |-> Get(tools.a[i], "name")]
\* The descriptors of the response to a tools/list request.
ListedTools(r) == Get(Get(Response(r).body, "result"), "tools")
\* The names GET /tools returned.
EndpointNames == Get(toolsResponse, "tools").a
NameOf(names) == {names[i] : i \in DOMAIN names}

====
